---------------------------- MODULE Spec2Model ----------------------------
(***************************************************************************)
(* Chunked, continuity-aware lesson generation of ai-tutor:               *)
(*   apps/api/services/chunked_content_generator.py  (ChunkedContentGenerator) *)
(*   apps/api/services/adaptive_chunk_sizer.py       (AdaptiveChunkSizer)  *)
(*                                                                         *)
(* Seconds are Python floats in the source.  They are modelled as exact   *)
(* rationals <<numerator, denominator>> in lowest terms, so that          *)
(* D/N, i*(D/N)/m and 0.8*x are computed, not approximated.  Scores in    *)
(* [0,1] are modelled in hundredths, content-type factors in tenths.      *)
(***************************************************************************)
EXTENDS Integers, Sequences, FiniteSets, TLC

(***************************************************************************)
(* Bounds of the model (not program constants).                            *)
(***************************************************************************)
MaxEvents == 2          \* most elements of one "timeline_events" array
MaxChunkNumber == 4     \* largest chunk_number / total_chunks handed to the parser alone

(***************************************************************************)
(* Program constants.                                                      *)
(***************************************************************************)
max_retries == 3                 \* self.max_retries
retry_delay == 1                 \* self.retry_delay (seconds)
FallbackChunks == 3              \* estimated_chunks_needed of the fallback plan
FallbackDuration == 30           \* target_duration of the fallback plan
FallbackTokens == 800            \* target_tokens of the fallback plan
MaxEventDuration == 15           \* min(event_spacing * 0.8, 15.0)
InitialSecondsPerChunk == 8      \* total_chunks * 8.0

\* Optional values: None is Python's None, Some(v) a present value.
None == <<>>

Some(v) == <<v>>

\* Python truthiness of an optional number: None and 0 are false.
Truthy(opt) == opt # None /\ opt[1] # 0

(***************************************************************************)
(* Exact arithmetic on seconds.                                            *)
(***************************************************************************)
RECURSIVE GCD(_, _)
GCD(a, b) == IF b = 0 THEN a ELSE GCD(b, a % b)

Rat(n, d) == LET g == GCD(n, d) IN <<n \div g, d \div g>>

RInt(n) == <<n, 1>>

RAdd(p, q) == Rat(p[1] * q[2] + q[1] * p[2], p[2] * q[2])

RMul(p, q) == Rat(p[1] * q[1], p[2] * q[2])

RDiv(p, q) == Rat(p[1] * q[2], p[2] * q[1])

RLt(p, q) == p[1] * q[2] < q[1] * p[2]

RLe(p, q) == p[1] * q[2] <= q[1] * p[2]

RMin(p, q) == IF RLe(p, q) THEN p ELSE q

Max(a, b) == IF a >= b THEN a ELSE b

Min(a, b) == IF a <= b THEN a ELSE b

(***************************************************************************)
(* adaptive_chunk_sizer.py                                                 *)
(***************************************************************************)
\* ComplexityMetrics.overall_complexity, in 1/10000: the weights are
\* 0.25, 0.20, 0.20, 0.25, 0.10 and the scores are in hundredths.
overall_complexity(m) ==
    m.concept_density * 25 + m.prerequisite_load * 20 + m.visual_complexity * 20
    + m.cognitive_load * 25 + m.interaction_level * 10

\* A variant of content_type_factors in which the content type has no
\* influence; C17 must tell it apart from the code.
content_type_factors_flat ==
    [definition |-> 10, process |-> 10, comparison |-> 10, example |-> 10,
     list |-> 10, concept_map |-> 10, formula |-> 10, story |-> 10]

\* content_type_factors, in tenths.  A content type that is no key of the
\* table (the routers pass the request's string through) raises KeyError.
content_type_factors ==
    [definition |-> 8, process |-> 12, comparison |-> 11, example |-> 9,
     list |-> 7, concept_map |-> 13, formula |-> 10, story |-> 14]

ContentTypes == DOMAIN content_type_factors

\* _generate_break_points: template[:chunk_count] of a 5-entry template;
\* only the number of labels is kept.
generate_break_points(chunk_count) == Min(5, chunk_count)

\* A variant of calculate_confidence without the cap of line 426; C18 must
\* tell it apart from the code.
calculate_confidence_uncapped(complexity, content_type) ==
    60 + (IF complexity.concept_density < 30 \/ complexity.concept_density > 70
          THEN 20 ELSE 0)
       + (IF complexity.visual_complexity < 30 \/ complexity.visual_complexity > 70
          THEN 15 ELSE 0)
       + (IF complexity.cognitive_load < 30 \/ complexity.cognitive_load > 70
          THEN 15 ELSE 0)
       + (IF content_type \in {"definition", "process", "comparison"} THEN 20 ELSE 0)

\* _calculate_confidence, in hundredths.
calculate_confidence(complexity, content_type) ==
    LET f1 == IF complexity.concept_density < 30 \/ complexity.concept_density > 70
              THEN 20 ELSE 0
        f2 == IF complexity.visual_complexity < 30 \/ complexity.visual_complexity > 70
              THEN 15 ELSE 0
        f3 == IF complexity.cognitive_load < 30 \/ complexity.cognitive_load > 70
              THEN 15 ELSE 0
        f4 == IF content_type \in {"definition", "process", "comparison"}
              THEN 20 ELSE 0
    IN  Min(100, 60 + (f1 + f2 + f3 + f4))

\* A variant of size_category with the bands in the opposite order; C16 must
\* tell it apart from the code.
size_category_inverted(adjusted_complexity) ==
    IF adjusted_complexity < 40000
    THEN [chunk_size |-> "small", target_duration |-> 20, target_tokens |-> 600]
    ELSE IF adjusted_complexity < 70000
    THEN [chunk_size |-> "medium", target_duration |-> 30, target_tokens |-> 800]
    ELSE [chunk_size |-> "large", target_duration |-> 45, target_tokens |-> 1000]

\* The size category chosen from the adjusted score (in 1/100000).
size_category(adjusted_complexity) ==
    IF adjusted_complexity < 40000
    THEN [chunk_size |-> "large", target_duration |-> 45, target_tokens |-> 1000]
    ELSE IF adjusted_complexity < 70000
    THEN [chunk_size |-> "medium", target_duration |-> 30, target_tokens |-> 800]
    ELSE [chunk_size |-> "small", target_duration |-> 20, target_tokens |-> 600]

\* A variant of estimated_chunks without the max(1, ...) of lines 317 and
\* 320; C14 must tell it apart from the code.
estimated_chunks_unclamped(cat, complexity_score, total_estimated_content, total_duration) ==
    IF Truthy(total_estimated_content)
    THEN total_estimated_content[1] \div cat.target_tokens
    ELSE IF Truthy(total_duration)
    THEN total_duration[1] \div cat.target_duration
    ELSE IF complexity_score > 7000 THEN 5
    ELSE IF complexity_score > 4000 THEN 3
    ELSE 2

\* The chunk count.  total_estimated_content and total_duration are optional;
\* Python's truthiness also sends 0 to the next branch.  int() truncates.
estimated_chunks(cat, complexity_score, total_estimated_content, total_duration) ==
    IF Truthy(total_estimated_content)
    THEN Max(1, total_estimated_content[1] \div cat.target_tokens)
    ELSE IF Truthy(total_duration)
    THEN Max(1, total_duration[1] \div cat.target_duration)
    ELSE IF complexity_score > 7000 THEN 5
    ELSE IF complexity_score > 4000 THEN 3
    ELSE 2

\* recommend_chunk_size.  [raised |-> TRUE] stands for the KeyError of the
\* factor lookup.
recommend_chunk_size(complexity, content_type, total_estimated_content, total_duration) ==
    IF content_type \notin ContentTypes
    THEN [raised |-> TRUE, error |-> "KeyError"]
    ELSE LET complexity_score == overall_complexity(complexity)
             adjusted == complexity_score * content_type_factors[content_type]
             cat == size_category(adjusted)
             n == estimated_chunks(cat, complexity_score,
                                   total_estimated_content, total_duration)
         IN  [raised |-> FALSE,
              chunk_size |-> cat.chunk_size,
              target_duration |-> cat.target_duration,
              target_tokens |-> cat.target_tokens,
              estimated_chunks_needed |-> n,
              break_points |-> generate_break_points(n),
              confidence |-> calculate_confidence(complexity, content_type)]

(***************************************************************************)
(* ChunkedContentGenerator.analyze_and_plan_chunks                         *)
(***************************************************************************)
\* One ChunkGenerationConfig per planned chunk (lines 138-154).
chunk_configs_for(recommendation, target_total_duration) ==
    LET chunk_duration ==
            RMin(RInt(recommendation.target_duration),
                 Rat(target_total_duration, recommendation.estimated_chunks_needed))
    IN  [i \in 1..recommendation.estimated_chunks_needed |->
            [max_tokens |-> recommendation.target_tokens,
             target_duration |-> chunk_duration,
             maintain_continuity |-> i > 1]]

\* The except branch (lines 158-181).  Building the fallback recommendation
\* evaluates self.chunk_sizer.ChunkSize.MEDIUM; ChunkSize is a module-level
\* enum of adaptive_chunk_sizer.py, not an attribute of AdaptiveChunkSizer, so
\* the expression raises AttributeError before anything is returned.
plan_fallback ==
    [raised |-> TRUE, error |-> "AttributeError", configs |-> <<>>]

\* analyze_and_plan_chunks: the complexity is what analyze_topic_complexity
\* returned for the topic (it never raises: it catches and returns 0.5s).
analyze_and_plan_chunks(complexity, content_type, target_total_duration) ==
    LET recommendation ==
            recommend_chunk_size(complexity, content_type, None,
                                 Some(target_total_duration))
    IN  IF recommendation.raised
        THEN plan_fallback
        ELSE [raised |-> FALSE, error |-> "",
              configs |-> chunk_configs_for(recommendation, target_total_duration)]

(***************************************************************************)
(* The LLM's response text.                                                *)
(*                                                                         *)
(* A text is described by what its characters are, as far as the parser   *)
(* looks at them:                                                          *)
(*   form "empty"      ""                                                  *)
(*   form "prose"      no JSON in it: The mitochondria is the powerhouse.  *)
(*   form "json"       a JSON document, of any top-level type              *)
(*   form "wrapped"    Here you go: {...} Hope it helps                    *)
(*   form "trailing"   {...} followed by 50+ characters holding a brace    *)
(*   form "truncated"  {"timeline_events":[...],"chunk_summary":"s"       *)
(*                     (cut before the closing brace of the object)        *)
(*   form "fields"     an object with a syntax error between its fields,   *)
(*                     each field well-formed                              *)
(*   fence             "json" (```json ... ```), "plain" (``` ... ```),    *)
(*                     "none"                                              *)
(*   value             the JSON value the (repaired) text denotes          *)
(*   words             len(text.split())                                   *)
(* A JSON value has a top-level type; an object has its set of keys, the  *)
(* type of its "timeline_events" value and, when that is an array, its    *)
(* elements.  tag identifies what the LLM wrote (summary, concepts).      *)
(* The LLM's summaries are taken to be non-empty strings.                 *)
(***************************************************************************)
EventKeys == {"timestamp", "duration", "event_type", "content"}

PayloadKeys == {"timeline_events", "chunk_summary", "next_chunk_hint",
                "concepts_introduced", "visual_elements_created"}

\* An element of "timeline_events" as the LLM wrote it.
RawEvent(kind, keys) ==
    [kind |-> kind, keys |-> keys,
     timestamp |-> <<500, 1>>, duration |-> <<60, 1>>,
     event_type |-> "visual", content |-> <<"llm", 0, 0>>,
     visual_instruction |-> ""]

EventFull == RawEvent("map", EventKeys)         \* {"timestamp":500,"duration":60,...}

EventContentOnly == RawEvent("map", {"content"}) \* {"content":"A"}

EventEmptyMap == RawEvent("map", {})            \* {}

EventString == RawEvent("str", {})              \* "intro"

EventChar == RawEvent("char", {})               \* one character of a str

RawEvents == {EventFull, EventContentOnly, EventEmptyMap, EventString}

EventLists(S) == UNION {[1..n -> S] : n \in 0..MaxEvents}

\* What the LLM wrote under the four other keys, told apart by tag.
LlmSummary(tag) == <<"summary", tag>>

LlmHint(tag) == <<"hint", tag>>

LlmConcepts(tag) == << <<"concept", tag>> >>

LlmVisuals(tag) == << <<"visual", tag>> >>

EmptyString == <<"", 0>>

JsonObject(keys, te_kind, events, tag) ==
    [top |-> "object", keys |-> keys, te_kind |-> te_kind, events |-> events,
     summary |-> LlmSummary(tag), hint |-> LlmHint(tag),
     concepts |-> LlmConcepts(tag), visuals |-> LlmVisuals(tag)]

JsonOther(top) ==
    [top |-> top, keys |-> {}, te_kind |-> "list", events |-> <<>>,
     summary |-> EmptyString, hint |-> EmptyString,
     concepts |-> <<>>, visuals |-> <<>>]

Text(form, fence, value) ==
    [form |-> form, fence |-> fence, value |-> value, words |-> 10]

NoJson == JsonOther("null")

\* The response of a 200 reply that has no "response" key, or an empty one.
EmptyText == Text("empty", "none", NoJson)

(***************************************************************************)
(* ChunkedContentGenerator: the parsing strategies.  A strategy returns    *)
(* [ok |-> TRUE, value |-> v], or [ok |-> FALSE] when it returns None or   *)
(* raises (_try_parse_json_multiple_strategies catches and goes on).       *)
(***************************************************************************)
Parsed(v) == [ok |-> TRUE, value |-> v]

NotParsed == [ok |-> FALSE, value |-> NoJson]

\* Lines 437-449: the markdown fences are cut away before anything else.
strip_markdown(text) == [text EXCEPT !.fence = "none"]

\* _strategy_direct_parse: json.loads of the whole text: any JSON document, of
\* any type.  json.loads("null") is None, which the caller takes as a failure.
strategy_direct_parse(text) ==
    IF text.form = "json" /\ text.value.top # "null"
    THEN Parsed(text.value) ELSE NotParsed

\* _strategy_boundary_extraction: json.loads of the text from the first brace
\* to the last one.
strategy_boundary_extraction(text) ==
    IF \/ text.form = "json" /\ text.value.top = "object"
       \/ text.form = "wrapped"
    THEN Parsed(text.value) ELSE NotParsed

\* _strategy_progressive_truncation: the text from the first brace, cut back
\* in steps of 50 characters to the last closing brace before the cut.
strategy_progressive_truncation(text) ==
    IF \/ text.form = "json" /\ text.value.top = "object"
       \/ text.form \in {"wrapped", "trailing"}
    THEN Parsed(text.value) ELSE NotParsed

\* _strategy_bracket_repair: parse at the first balanced closing brace, else
\* append the missing closing braces.
strategy_bracket_repair(text) ==
    IF \/ text.form = "json" /\ text.value.top = "object"
       \/ text.form \in {"wrapped", "trailing", "truncated"}
    THEN Parsed(text.value) ELSE NotParsed

\* _strategy_field_by_field: the five fields by regular expression; a dict
\* with all five keys when timeline_events or chunk_summary was found
\* non-empty.  "timeline_events" matches only when its value is an array.
strategy_field_by_field(text) ==
    LET v == text.value
        found == text.form \in {"json", "wrapped", "trailing", "truncated", "fields"}
                 /\ v.top = "object"
        has(k) == found /\ k \in v.keys
        events == IF has("timeline_events") /\ v.te_kind = "list"
                  THEN v.events ELSE <<>>
    IN  IF events # <<>> \/ has("chunk_summary")
        THEN Parsed([top |-> "object", keys |-> PayloadKeys,
                     te_kind |-> "list", events |-> events,
                     summary |-> IF has("chunk_summary") THEN v.summary ELSE EmptyString,
                     hint |-> IF has("next_chunk_hint") THEN v.hint ELSE EmptyString,
                     concepts |-> IF has("concepts_introduced") THEN v.concepts ELSE <<>>,
                     visuals |-> IF has("visual_elements_created") THEN v.visuals
                                 ELSE <<>>])
        ELSE NotParsed

\* _try_parse_json_multiple_strategies: the first strategy that succeeds.
try_parse_json_multiple_strategies(text) ==
    LET r1 == strategy_direct_parse(text)
        r2 == strategy_boundary_extraction(text)
        r3 == strategy_progressive_truncation(text)
        r4 == strategy_bracket_repair(text)
        r5 == strategy_field_by_field(text)
    IN  IF r1.ok THEN r1
        ELSE IF r2.ok THEN r2
        ELSE IF r3.ok THEN r3
        ELSE IF r4.ok THEN r4
        ELSE r5

(***************************************************************************)
(* ChunkedContentGenerator._parse_chunk_response                           *)
(***************************************************************************)
\* Lines 470-471 and 519-520.
chunk_duration_of(target_duration, total_chunks) ==
    RDiv(target_duration, RInt(total_chunks))

chunk_start_time_of(chunk_number, target_duration, total_chunks) ==
    RMul(RInt(chunk_number - 1), chunk_duration_of(target_duration, total_chunks))

\* Line 481: chunk_duration / max(1, len(timeline_events)).
event_spacing_of(chunk_duration, count) ==
    RDiv(chunk_duration, RInt(Max(1, count)))

\* A variant of event_timestamp_of that measures from the chunk's own start
\* instead of the lesson's; C2 must tell it apart from the code.
event_timestamp_chunk_relative(chunk_start_time, i, event_spacing) ==
    RMul(RInt(i), event_spacing)

\* Line 482: chunk_start_time + i * event_spacing, i 0-based.
event_timestamp_of(chunk_start_time, i, event_spacing) ==
    RAdd(chunk_start_time, RMul(RInt(i), event_spacing))

\* A variant of event_duration_of with the factor 1.2 in place of 0.8; C25
\* must tell it apart from the code.
event_duration_long(event_spacing) ==
    RMin(RMul(event_spacing, <<6, 5>>), RInt(MaxEventDuration))

\* Line 488: min(event_spacing * 0.8, 15.0).
event_duration_of(event_spacing) ==
    RMin(RMul(event_spacing, <<4, 5>>), RInt(MaxEventDuration))

\* Lines 475-496: every element that is a dict gets its timestamp and
\* duration overwritten and its missing event_type and content filled in;
\* any other element is left in the list as it is.
normalize_events(timeline_events, chunk_number, target_duration, total_chunks) ==
    LET chunk_duration == chunk_duration_of(target_duration, total_chunks)
        chunk_start_time == chunk_start_time_of(chunk_number, target_duration, total_chunks)
        event_spacing == event_spacing_of(chunk_duration, Len(timeline_events))
    IN  [j \in 1..Len(timeline_events) |->
            LET event == timeline_events[j] IN
            IF event.kind # "map" THEN event
            ELSE [event EXCEPT
                    !.keys = @ \cup EventKeys,
                    !.timestamp = event_timestamp_of(chunk_start_time, j - 1, event_spacing),
                    !.duration = event_duration_of(event_spacing),
                    !.event_type = IF "event_type" \in event.keys THEN @ ELSE "narration",
                    !.content = IF "content" \in event.keys THEN @
                                ELSE <<"Content for event", j, chunk_number>>]]

\* _get_fallback_value for the two required fields (lines 459-463).
FallbackSummary == <<"Content summary not available", 0>>

Payload(keys, te_kind, events, summary, hint, concepts, visuals) ==
    [keys |-> keys, te_kind |-> te_kind, timeline_events |-> events,
     chunk_summary |-> summary, next_chunk_hint |-> hint,
     concepts_introduced |-> concepts, visual_elements_created |-> visuals]

NoPayload == Payload({}, "list", <<>>, EmptyString, EmptyString, <<>>, <<>>)

Returned(data) == [raised |-> FALSE, error |-> "", data |-> data]

Raised(error) == [raised |-> TRUE, error |-> error, data |-> NoPayload]

\* Lines 500-537: the except json.JSONDecodeError branch: one synthetic
\* event holding the text _extract_meaningful_content found.
fallback_payload(chunk_number, target_duration, total_chunks) ==
    Payload(PayloadKeys, "list",
            << [kind |-> "map",
                keys |-> EventKeys \cup {"visual_instruction"},
                timestamp |-> chunk_start_time_of(chunk_number, target_duration, total_chunks),
                duration |-> chunk_duration_of(target_duration, total_chunks),
                event_type |-> "narration",
                content |-> <<"extracted", 0, 0>>,
                visual_instruction |-> "VISUAL: text center"] >>,
            <<"extracted content from malformed response", chunk_number>>,
            <<"Continue with structured content", 0>>,
            << <<"Basic concepts from chunk", chunk_number>> >>,
            << <<"text explanation", 0>> >>)

\* Lines 458-498, for a chunk_data that a strategy returned.  Only
\* json.JSONDecodeError is caught by the function, so the TypeError of
\*   "timeline_events" not in 5            (a number, true or false)
\*   chunk_data["timeline_events"] = []    (a list or a str)
\*   enumerate(None), enumerate(5)         ("timeline_events": null or a number)
\* is raised to the caller.  A str under "timeline_events" is iterated
\* character by character, no character is a dict, and it is returned as it
\* is: its events are its characters, elements of kind "char".  The fields
\* other than the two required ones read as chunk_data.get(key, "") / [].
validate_and_fix(v, chunk_number, target_duration, total_chunks) ==
    IF v.top # "object" THEN Raised("TypeError")
    ELSE LET has(k) == k \in v.keys
             te_kind == IF has("timeline_events") THEN v.te_kind ELSE "list"
             events == IF has("timeline_events") THEN v.events ELSE <<>>
         IN  IF te_kind \in {"null", "number"} THEN Raised("TypeError")
             ELSE Returned(Payload(
                      v.keys \cup {"timeline_events", "chunk_summary"}, te_kind,
                      normalize_events(events, chunk_number, target_duration, total_chunks),
                      IF has("chunk_summary") THEN v.summary ELSE FallbackSummary,
                      IF has("next_chunk_hint") THEN v.hint ELSE EmptyString,
                      IF has("concepts_introduced") THEN v.concepts ELSE <<>>,
                      IF has("visual_elements_created") THEN v.visuals ELSE <<>>))

parse_chunk_response(text, chunk_number, target_duration, total_chunks) ==
    LET chunk_data == try_parse_json_multiple_strategies(strip_markdown(text))
    IN  IF ~chunk_data.ok
        THEN Returned(fallback_payload(chunk_number, target_duration, total_chunks))
        ELSE validate_and_fix(chunk_data.value, chunk_number, target_duration, total_chunks)

(***************************************************************************)
(* ChunkedContentGenerator.generate_chunk, from the LLM client's return on *)
(***************************************************************************)
\* _estimate_token_count: int(word_count * 1.3).
estimate_token_count(text) == (text.words * 13) \div 10

\* Line 207: f"{hash(topic)}_{chunk_number}_{int(start_time)}".
chunk_id_of(topic, chunk_number, start_time) == <<topic, chunk_number, start_time>>

ChunkResult(chunk_id, chunk_number, data, generation_time, token_count, status, error) ==
    [chunk_id |-> chunk_id, chunk_number |-> chunk_number,
     timeline_events |-> data.timeline_events,
     chunk_summary |-> data.chunk_summary,
     next_chunk_hint |-> data.next_chunk_hint,
     concepts_introduced |-> data.concepts_introduced,
     visual_elements_created |-> data.visual_elements_created,
     generation_time |-> generation_time, token_count |-> token_count,
     status |-> status, error_message |-> error]

\* A variant of failed_result that reports one fixed message instead of the
\* exception's; C13 must tell it apart from the code.
failed_result_generic(chunk_id, chunk_number, generation_time, message) ==
    ChunkResult(chunk_id, chunk_number, NoPayload, generation_time, 0,
                "failed", Some("Chunk generation failed"))

\* Lines 259-275: the except branch.
failed_result(chunk_id, chunk_number, generation_time, message) ==
    ChunkResult(chunk_id, chunk_number, NoPayload, generation_time, 0,
                "failed", Some(message))

\* A variant of generate_chunk_result whose line 224 tests `response is
\* None` instead of `not response`, so that an empty text goes on to the
\* parser; C30 must tell it apart from the code.
generate_chunk_result_none_only(chunk_id, chunk_number, response, chunk_config, total_chunks, generation_time) ==
    IF response = None
    THEN failed_result(chunk_id, chunk_number, generation_time,
                       "Failed to get response from LLM")
    ELSE LET parsed == parse_chunk_response(response[1], chunk_number,
                                            chunk_config.target_duration, total_chunks)
         IN  IF parsed.raised
             THEN failed_result(chunk_id, chunk_number, generation_time, parsed.error)
             ELSE IF parsed.data.timeline_events = <<>>
             THEN failed_result(chunk_id, chunk_number, generation_time,
                                "No timeline events generated")
             ELSE ChunkResult(chunk_id, chunk_number, parsed.data, generation_time,
                              estimate_token_count(response[1]), "completed", None)

\* A variant of generate_chunk_result without the check of lines 232-233;
\* C20 must tell it apart from the code.
generate_chunk_result_unchecked(chunk_id, chunk_number, response, chunk_config, total_chunks, generation_time) ==
    IF response = None \/ response[1].form = "empty"
    THEN failed_result(chunk_id, chunk_number, generation_time,
                       "Failed to get response from LLM")
    ELSE LET parsed == parse_chunk_response(response[1], chunk_number,
                                            chunk_config.target_duration, total_chunks)
         IN  IF parsed.raised
             THEN failed_result(chunk_id, chunk_number, generation_time, parsed.error)
             ELSE ChunkResult(chunk_id, chunk_number, parsed.data, generation_time,
                              estimate_token_count(response[1]), "completed", None)

\* Lines 224-257.  response is None, or Some(text).
generate_chunk_result(chunk_id, chunk_number, response, chunk_config, total_chunks, generation_time) ==
    IF response = None \/ response[1].form = "empty"
    THEN failed_result(chunk_id, chunk_number, generation_time,
                       "Failed to get response from LLM")
    ELSE LET parsed == parse_chunk_response(response[1], chunk_number,
                                            chunk_config.target_duration, total_chunks)
         IN  IF parsed.raised
             THEN failed_result(chunk_id, chunk_number, generation_time, parsed.error)
             ELSE IF parsed.data.timeline_events = <<>>
             THEN failed_result(chunk_id, chunk_number, generation_time,
                                "No timeline events generated")
             ELSE ChunkResult(chunk_id, chunk_number, parsed.data, generation_time,
                              estimate_token_count(response[1]), "completed", None)

\* What generation_cache keeps of a result and the code reads back
\* (lines 334-337, get_generation_stats).
cache_entry(result) ==
    [chunk_number |-> result.chunk_number, status |-> result.status,
     generation_time |-> result.generation_time, token_count |-> result.token_count]

\* dict[key] = value
Put(dict, key, value) ==
    [k \in DOMAIN dict \cup {key} |-> IF k = key THEN value ELSE dict[k]]

(***************************************************************************)
(* ChunkedContentGenerator.generate_chunked_lesson: the pieces between     *)
(* its yields                                                              *)
(***************************************************************************)
\* Lines 303-311.
initial_progress ==
    [total_chunks |-> 0, completed_chunks |-> 0, current_chunk |-> 0,
     status |-> "analyzing", estimated_time_remaining |-> RInt(0), errors |-> <<>>]

\* Lines 319-322.
progress_with_plan(p, chunk_configs) ==
    [p EXCEPT !.total_chunks = Len(chunk_configs),
              !.status = "generating",
              !.estimated_time_remaining = RInt(Len(chunk_configs) * InitialSecondsPerChunk)]

\* Lines 376-380.  An entry of errors is <<prefix, chunk, message>>; str(e)
\* alone has no prefix and no chunk.
progress_failed(p, message) ==
    [p EXCEPT !.status = "failed", !.errors = Append(@, <<"", 0, message>>)]

RECURSIVE SumCompletedTimes(_, _)
SumCompletedTimes(cache, ids) ==
    IF ids = {} THEN 0
    ELSE LET id == CHOOSE x \in ids : TRUE
         IN  (IF cache[id].status = "completed" THEN cache[id].generation_time ELSE 0)
             + SumCompletedTimes(cache, ids \ {id})

\* A variant of progress_for_chunk that leaves current_chunk alone; C7 must
\* tell it apart from the code.
progress_for_chunk_stale(p, i, cache) ==
    [p EXCEPT !.estimated_time_remaining =
                  IF i > 0
                  THEN RMul(RInt(p.total_chunks - i),
                            Rat(SumCompletedTimes(cache, DOMAIN cache),
                                Max(1, p.completed_chunks)))
                  ELSE @]

\* Lines 329-338, i 0-based.
progress_for_chunk(p, i, cache) ==
    [p EXCEPT !.current_chunk = i + 1,
              !.estimated_time_remaining =
                  IF i > 0
                  THEN RMul(RInt(p.total_chunks - i),
                            Rat(SumCompletedTimes(cache, DOMAIN cache),
                                Max(1, p.completed_chunks)))
                  ELSE @]

RECURSIVE SumDurations(_, _)
SumDurations(chunk_configs, n) ==
    IF n = 0 THEN RInt(0)
    ELSE RAdd(SumDurations(chunk_configs, n - 1), chunk_configs[n].target_duration)

\* Lines 351-357, i 0-based.
continuity_after(chunk_result, chunk_configs, i) ==
    [previous_concepts |-> chunk_result.concepts_introduced,
     visual_elements |-> chunk_result.visual_elements_created,
     narrative_thread |-> chunk_result.chunk_summary,
     current_timestamp |-> SumDurations(chunk_configs, i + 1),
     chunk_number |-> i + 1]

\* A variant of next_continuity in which a failed chunk clears the context;
\* C4 must tell it apart from the code.
next_continuity_clearing(context, chunk_result, chunk_configs, i) ==
    IF chunk_result.status = "completed"
    THEN Some(continuity_after(chunk_result, chunk_configs, i))
    ELSE None

\* A variant of next_continuity that accumulates: the concepts and visual
\* elements of the context so far are kept in front of the new chunk's; C24
\* must tell it apart from the code.
next_continuity_merging(context, chunk_result, chunk_configs, i) ==
    IF chunk_result.status # "completed" THEN context
    ELSE LET fresh == continuity_after(chunk_result, chunk_configs, i)
         IN  IF context = None THEN Some(fresh)
             ELSE Some([fresh EXCEPT
                          !.previous_concepts = context[1].previous_concepts \o @,
                          !.visual_elements = context[1].visual_elements \o @])

\* Lines 347-363: the continuity context after a chunk's result.
next_continuity(context, chunk_result, chunk_configs, i) ==
    IF chunk_result.status = "completed"
    THEN Some(continuity_after(chunk_result, chunk_configs, i))
    ELSE context

\* A variant of progress_after_chunk that records no error for a failed
\* chunk; C21 must tell it apart from the code.
progress_after_chunk_silent(p, chunk_result, i) ==
    IF chunk_result.status = "completed"
    THEN [p EXCEPT !.completed_chunks = @ + 1]
    ELSE p

\* A variant of progress_after_chunk in which a failed chunk fails the run;
\* C8 must tell it apart from the code.
progress_after_chunk_failing(p, chunk_result, i) ==
    IF chunk_result.status = "completed"
    THEN [p EXCEPT !.completed_chunks = @ + 1]
    ELSE [p EXCEPT !.status = "failed",
                   !.errors =
              Append(@, <<"Failed to generate chunk", i + 1, chunk_result.error_message[1]>>)]

\* Lines 347-363: the progress record after a chunk's result.
progress_after_chunk(p, chunk_result, i) ==
    IF chunk_result.status = "completed"
    THEN [p EXCEPT !.completed_chunks = @ + 1]
    ELSE [p EXCEPT !.errors =
              Append(@, <<"Failed to generate chunk", i + 1, chunk_result.error_message[1]>>)]

\* A variant of chunk_number_of that numbers chunks from 0; C6 must tell it
\* apart from the code.
chunk_number_zero_based(index) == index

\* Line 344: the 1-based chunk_number for loop index i.
chunk_number_of(index) == index + 1

\* Lines 401-413: client.post(...) is awaited inside the client's context;
\* the request is outstanding from the post to its reply or exception.
posted(requests, chunk_number) == requests \cup {chunk_number}

\* A variant of answered that never retires a request; C5 must tell it apart
\* from the code.
answered_never(requests, chunk_number) == requests

answered(requests, chunk_number) == requests \ {chunk_number}

\* A variant of last_attempt that lets the loop run once more; C11 must tell
\* it apart from the code.
last_attempt_late(attempt) == attempt >= max_retries

\* Line 391: for attempt in range(self.max_retries); the attempt is the last
\* one of the loop.
last_attempt(attempt) == attempt + 1 >= max_retries

\* Line 424: if attempt < self.max_retries - 1.
sleeps_after(attempt) == attempt < max_retries - 1

\* Line 425: self.retry_delay * (attempt + 1).
backoff_delay(attempt) == retry_delay * (attempt + 1)

\* One attempt of the LLM call as the log keeps it: how it ended ("ok": status
\* 200 with the endpoint's {response: text} body; "status": any other status;
\* "error": an exception inside the try), the text of an "ok" reply, and the
\* seconds slept after it.
logged(log, outcome, body) ==
    Append(log, [outcome |-> outcome, body |-> body, delay |-> 0])

slept_after(log, delay) == [log EXCEPT ![Len(log)].delay = delay]

\* A variant of progress_completed that reports a run with chunk errors as
\* failed; C9 must tell it apart from the code.
progress_completed_strict(p) ==
    [p EXCEPT !.status = IF Len(p.errors) > 0 THEN "failed" ELSE "completed",
              !.estimated_time_remaining = RInt(0)]

\* Lines 369-371.
progress_completed(p) ==
    [p EXCEPT !.status = "completed", !.estimated_time_remaining = RInt(0)]

(***************************************************************************)
(* Inputs                                                                  *)
(***************************************************************************)
Topic == "topic"

\* What analyze_topic_complexity returned for the topic: all five scores x.
Uniform(x) ==
    [concept_density |-> x, prerequisite_load |-> x, visual_complexity |-> x,
     cognitive_load |-> x, interaction_level |-> x]

RunComplexities == {Uniform(30), Uniform(80)}

\* "unknown" is a content_type that is no key of content_type_factors.
RunContentTypes == {"definition", "story", "unknown"}

RunDurations == {10, 60}

Requests ==
    [complexity : RunComplexities, content_type : RunContentTypes,
     target_total_duration : RunDurations]

\* The response texts of a 200 reply to the request for chunk k.
RunTexts(k) ==
    { Text("json", "none", JsonObject(PayloadKeys, "list",
                                      <<EventFull, EventContentOnly>>, k)),
      Text("json", "none", JsonObject(PayloadKeys, "list", <<>>, k)),
      Text("json", "none", JsonOther("array")),
      Text("prose", "none", NoJson),
      EmptyText }

\* Seconds one HTTP round trip may take, rounded to whole seconds.
Latencies == {0, 1}

(***************************************************************************)
(* State                                                                   *)
(***************************************************************************)
VARIABLES
    request,              \* the arguments of generate_chunked_lesson
    pc,                   \* where the generator is suspended
    progress,             \* the GenerationProgress of the run
    chunk_configs,        \* the planned ChunkGenerationConfigs
    continuity_context,   \* the local continuity_context, None or Some(context)
    i,                    \* the loop index (0-based)
    emitted,              \* what was yielded, as the consumer saw it (history)
    last_result,          \* the latest ChunkGenerationResult, None or Some(result)
    generation_cache,     \* self.generation_cache
    continuity_contexts,  \* self.continuity_contexts
    clock,                \* time.time(), in whole seconds
    start_time,           \* generate_chunk's start_time
    attempt,              \* _make_llm_request_with_retry's attempt
    slept,                \* the asyncio.sleep delays of the current LLM call
    inflight,             \* chunk numbers with an HTTP request posted and unanswered
    prompts,              \* the arguments of every prompt built (history)
    escaped,              \* an exception reached the generator's except (history)
    llm_log,              \* the attempts of the latest LLM call, in order (history)
    llm_return,           \* what the latest LLM call returned, None while it runs
    parse_input,          \* arguments of a direct _parse_chunk_response call
    parse_output,         \* what that call returned or raised, None before
    size_input,           \* arguments of a direct recommend_chunk_size call
    size_output,          \* the ChunkRecommendation it returned, None before
    convert_input,        \* the chunk_results of a convert_chunks_to_canvas_steps call
    convert_output,       \* what that call returned or raised, None before
    other_run             \* what another run on the same generator wrote (history)

run_vars ==
    <<request, pc, progress, chunk_configs, continuity_context, i, emitted,
      last_result, generation_cache, continuity_contexts, clock, start_time,
      attempt, slept, inflight, prompts, escaped, llm_log, llm_return>>

parse_vars == <<parse_input, parse_output>>

size_vars == <<size_input, size_output>>

convert_vars == <<convert_input, convert_output>>

other_vars == <<other_run>>

vars == <<run_vars, parse_vars, size_vars, convert_vars, other_vars>>

\* One yielded pair (progress, chunk_result), as read by the consumer at
\* the yield.
emit_item(p, result) ==
    [status |-> p.status, total_chunks |-> p.total_chunks,
     completed_chunks |-> p.completed_chunks, current_chunk |-> p.current_chunk,
     errors |-> Len(p.errors),
     result |-> IF result = None THEN None
                ELSE Some([chunk_id |-> result[1].chunk_id,
                           chunk_number |-> result[1].chunk_number,
                           generation_time |-> result[1].generation_time,
                           status |-> result[1].status,
                           chunk_summary |-> result[1].chunk_summary,
                           concepts_introduced |-> result[1].concepts_introduced,
                           visual_elements_created |->
                               result[1].visual_elements_created])]

NoParseInput ==
    [text |-> EmptyText, chunk_number |-> 1, target_duration |-> RInt(1),
     total_chunks |-> 1]

\* The generator object before its first step, for one request.
RunAt(where) ==
    /\ pc = where
    /\ progress = [initial_progress EXCEPT !.status = "pending"]
    /\ chunk_configs = <<>>
    /\ continuity_context = None
    /\ i = 0
    /\ emitted = <<>>
    /\ last_result = None
    /\ generation_cache = <<>>
    /\ continuity_contexts = <<>>
    /\ clock = 0
    /\ start_time = 0
    /\ attempt = 0
    /\ slept = <<>>
    /\ inflight = {}
    /\ prompts = <<>>
    /\ escaped = FALSE
    /\ llm_log = <<>>
    /\ llm_return = None
    /\ other_run = <<>>

NoSizeInput ==
    [complexity |-> Uniform(50), content_type |-> "definition",
     total_estimated_content |-> None, total_duration |-> None]

\* No direct call of the parser, the sizer or the converter is made.
NoParseCall == parse_input = NoParseInput /\ parse_output = None

NoSizeCall == size_input = NoSizeInput /\ size_output = None

NoConvertCall == convert_input = <<>> /\ convert_output = None

Init ==
    /\ request \in Requests
    /\ RunAt("start")
    /\ NoParseCall
    /\ NoSizeCall
    /\ NoConvertCall

(***************************************************************************)
(* generate_chunked_lesson, one action per stretch between suspensions     *)
(***************************************************************************)
\* Lines 301-312: the first yield.
Start ==
    /\ pc = "start"
    /\ progress' = initial_progress
    /\ emitted' = Append(emitted, emit_item(progress', None))
    /\ pc' = "analyzing"
    /\ UNCHANGED <<request, chunk_configs, continuity_context, i, last_result,
                   generation_cache, continuity_contexts, clock, start_time,
                   attempt, slept, inflight, prompts, escaped, llm_log, llm_return, parse_vars, size_vars, convert_vars, other_vars>>

\* Lines 314-326, or lines 376-381 when analyze_and_plan_chunks raises.
Plan ==
    /\ pc = "analyzing"
    /\ LET plan == analyze_and_plan_chunks(request.complexity, request.content_type,
                                           request.target_total_duration)
       IN  IF plan.raised
           THEN /\ progress' = progress_failed(progress, plan.error)
                /\ escaped' = TRUE
                /\ pc' = "done"
                /\ UNCHANGED chunk_configs
           ELSE /\ progress' = progress_with_plan(progress, plan.configs)
                /\ chunk_configs' = plan.configs
                /\ pc' = "loop"
                /\ UNCHANGED escaped
    /\ emitted' = Append(emitted, emit_item(progress', None))
    /\ continuity_context' = None
    /\ UNCHANGED <<request, i, last_result, generation_cache, continuity_contexts,
                   clock, start_time, attempt, slept, inflight, prompts, llm_log, llm_return, parse_vars, size_vars, convert_vars, other_vars>>

\* Lines 328-340: the progress update before a chunk.
BeginChunk ==
    /\ pc = "loop"
    /\ i < Len(chunk_configs)
    /\ progress' = progress_for_chunk(progress, i, generation_cache)
    /\ emitted' = Append(emitted, emit_item(progress', None))
    /\ pc' = "chunk"
    /\ UNCHANGED <<request, chunk_configs, continuity_context, i, last_result,
                   generation_cache, continuity_contexts, clock, start_time,
                   attempt, slept, inflight, prompts, escaped, llm_log, llm_return, parse_vars, size_vars, convert_vars, other_vars>>

\* A variant of chunk_prompt that looks the previous chunk's context up in
\* self.continuity_contexts, taking the entry of the latest start second;
\* C28 must tell it apart from the code.
chunk_prompt_shared(contexts, chunk_number, chunk_config, context) ==
    LET previous == {id \in DOMAIN contexts :
                        contexts[id].chunk_number = chunk_number - 1}
        latest == CHOOSE id \in previous : \A other \in previous : other[3] <= id[3]
    IN  [chunk_number |-> chunk_number, config |-> chunk_config,
         context |-> IF previous = {} THEN context ELSE Some(contexts[latest])]

\* Lines 212-215: the prompt of a chunk is built from generate_chunk's
\* arguments; self.continuity_contexts (contexts) is not read.
chunk_prompt(contexts, chunk_number, chunk_config, context) ==
    [chunk_number |-> chunk_number, config |-> chunk_config, context |-> context]

\* Lines 343-345, 206-222 and 391-413: generate_chunk is entered, the prompt is
\* built from the local continuity_context and the first request is posted.
CallChunk ==
    /\ pc = "chunk"
    /\ start_time' = clock
    /\ prompts' = Append(prompts, chunk_prompt(continuity_contexts, chunk_number_of(i),
                                                chunk_configs[i + 1], continuity_context))
    /\ attempt' = 0
    /\ slept' = <<>>
    /\ inflight' = posted(inflight, chunk_number_of(i))
    /\ llm_log' = <<>>
    /\ llm_return' = None
    /\ pc' = "await"
    /\ UNCHANGED <<request, progress, chunk_configs, continuity_context, i, emitted,
                   last_result, generation_cache, continuity_contexts, clock,
                   escaped, parse_vars, size_vars, convert_vars, other_vars>>

\* Lines 224-275 and 347-366: generate_chunk's result for the LLM client's
\* return value, then the loop body up to the yield of the result.
FinishChunk(response, now) ==
    LET chunk_result ==
            generate_chunk_result(chunk_id_of(Topic, chunk_number_of(i), start_time),
                                  chunk_number_of(i), response, chunk_configs[i + 1],
                                  progress.total_chunks, now - start_time)
        completed == chunk_result.status = "completed"
    IN  /\ generation_cache' =
               IF completed
               THEN Put(generation_cache, chunk_result.chunk_id, cache_entry(chunk_result))
               ELSE generation_cache
        /\ progress' = progress_after_chunk(progress, chunk_result, i)
        /\ continuity_context' =
               next_continuity(continuity_context, chunk_result, chunk_configs, i)
        /\ continuity_contexts' =
               IF completed
               THEN Put(continuity_contexts, chunk_result.chunk_id,
                        continuity_after(chunk_result, chunk_configs, i))
               ELSE continuity_contexts
        /\ last_result' = Some(chunk_result)
        /\ emitted' = Append(emitted, emit_item(progress', Some(chunk_result)))
        /\ i' = i + 1
        /\ pc' = "loop"
        /\ attempt' = 0
        /\ slept' = <<>>
        /\ clock' = now
        /\ llm_return' = Some(response)
        /\ UNCHANGED <<request, chunk_configs, start_time, prompts, escaped, parse_vars, size_vars, convert_vars, other_vars>>

\* Lines 415-417: a reply with status 200 ends the LLM call.
ReplyOk ==
    /\ pc = "await"
    /\ \E dt \in Latencies, text \in RunTexts(chunk_number_of(i)) :
          /\ llm_log' = logged(llm_log, "ok", Some(text))
          /\ inflight' = answered(inflight, chunk_number_of(i))
          /\ FinishChunk(Some(text), clock + dt)

\* Lines 418-419: any other status is logged; the loop goes on to the next
\* attempt at once, or ends after the last one (line 427).
ReplyNon200 ==
    /\ pc = "await"
    /\ llm_log' = logged(llm_log, "status", None)
    /\ \E dt \in Latencies :
          IF ~last_attempt(attempt)
          THEN /\ attempt' = attempt + 1
               /\ clock' = clock + dt
               /\ UNCHANGED <<request, pc, progress, chunk_configs, continuity_context,
                              i, emitted, last_result, generation_cache,
                              continuity_contexts, start_time, slept, inflight,
                              prompts, escaped, llm_return, parse_vars, size_vars, convert_vars, other_vars>>
          ELSE /\ inflight' = answered(inflight, chunk_number_of(i))
               /\ FinishChunk(None, clock + dt)

\* Lines 421-425: an exception of the attempt (settings lookup, transport,
\* timeout, response.json()); asyncio.sleep before every attempt but the last.
ReplyError ==
    /\ pc = "await"
    /\ llm_log' = logged(llm_log, "error", None)
    /\ \E dt \in Latencies :
          IF sleeps_after(attempt)
          THEN /\ pc' = "sleep"
               /\ clock' = clock + dt
               /\ inflight' = answered(inflight, chunk_number_of(i))
               /\ UNCHANGED <<request, progress, chunk_configs, continuity_context,
                              i, emitted, last_result, generation_cache,
                              continuity_contexts, start_time, attempt, slept,
                              prompts, escaped, llm_return, parse_vars, size_vars, convert_vars, other_vars>>
          ELSE /\ inflight' = answered(inflight, chunk_number_of(i))
               /\ FinishChunk(None, clock + dt)

\* Line 425 returns: the next attempt is posted.
WakeUp ==
    /\ pc = "sleep"
    /\ slept' = Append(slept, backoff_delay(attempt))
    /\ llm_log' = slept_after(llm_log, backoff_delay(attempt))
    /\ clock' = clock + backoff_delay(attempt)
    /\ attempt' = attempt + 1
    /\ inflight' = posted(inflight, chunk_number_of(i))
    /\ pc' = "await"
    /\ UNCHANGED <<request, progress, chunk_configs, continuity_context, i, emitted,
                   last_result, generation_cache, continuity_contexts, start_time,
                   prompts, escaped, llm_return, parse_vars, size_vars, convert_vars, other_vars>>

\* Lines 368-372: the final yield.
Complete ==
    /\ pc = "loop"
    /\ i = Len(chunk_configs)
    /\ progress' = progress_completed(progress)
    /\ emitted' = Append(emitted, emit_item(progress', None))
    /\ pc' = "done"
    /\ UNCHANGED <<request, chunk_configs, continuity_context, i, last_result,
                   generation_cache, continuity_contexts, clock, start_time,
                   attempt, slept, inflight, prompts, escaped, llm_log, llm_return, parse_vars, size_vars, convert_vars, other_vars>>

Next ==
    \/ Start
    \/ Plan
    \/ BeginChunk
    \/ CallChunk
    \/ ReplyOk
    \/ ReplyNon200
    \/ ReplyError
    \/ WakeUp
    \/ Complete

Spec == Init /\ [][Next]_vars

(***************************************************************************)
(* _parse_chunk_response called on its own                                 *)
(***************************************************************************)
Fences == {"none", "json", "plain"}

ObjectForms == {"json", "wrapped", "trailing", "truncated", "fields"}

KeySetsWithEvents == {PayloadKeys, {"timeline_events"}}

KeySetsWithoutEvents == {{"chunk_summary"}, {}}

ObjectValues ==
    {JsonObject(K, "list", ev, 1) : K \in KeySetsWithEvents, ev \in EventLists(RawEvents)}
    \cup {JsonObject(K, kind, <<>>, 1) : K \in KeySetsWithEvents, kind \in {"null", "number"}}
    \cup {JsonObject(K, "string", <<EventChar, EventChar>>, 1) : K \in KeySetsWithEvents}
    \cup {JsonObject(K, "list", <<>>, 1) : K \in KeySetsWithoutEvents}

ParseTexts ==
    {Text(form, fence, v) : form \in ObjectForms, fence \in Fences, v \in ObjectValues}
    \cup {Text("json", fence, JsonOther(top)) :
              fence \in Fences, top \in {"array", "number", "string", "bool", "null"}}
    \cup {Text("prose", fence, NoJson) : fence \in Fences}
    \cup {EmptyText}

\* target_duration arguments: 120 s and 22.5 s.
ParseDurations == {RInt(120), Rat(45, 2)}

ParseInputs ==
    {p \in [text : ParseTexts, chunk_number : 1..MaxChunkNumber,
            target_duration : ParseDurations, total_chunks : 1..MaxChunkNumber] :
        p.chunk_number <= p.total_chunks}

InitParse ==
    /\ request = [complexity |-> Uniform(30), content_type |-> "definition",
                  target_total_duration |-> 60]
    /\ RunAt("idle")
    /\ parse_input \in ParseInputs
    /\ parse_output = None
    /\ NoSizeCall
    /\ NoConvertCall

\* One call of _parse_chunk_response.
Parse ==
    /\ parse_output = None
    /\ parse_output' = Some(parse_chunk_response(parse_input.text,
                                                 parse_input.chunk_number,
                                                 parse_input.target_duration,
                                                 parse_input.total_chunks))
    /\ UNCHANGED <<run_vars, parse_input, size_vars, convert_vars, other_vars>>

NextParse == Parse

SpecParse == InitParse /\ [][NextParse]_vars

(***************************************************************************)
(* recommend_chunk_size called on its own                                  *)
(***************************************************************************)
\* Scores of one metric, in hundredths.  Exact arithmetic stands for the
\* float arithmetic of the source: on every input enumerated here the float
\* sums and products fall on the same side of each threshold as the exact
\* values do.
SizerScores == {20, 50, 80}

SizerComplexities ==
    [concept_density : SizerScores, prerequisite_load : SizerScores,
     visual_complexity : SizerScores, cognitive_load : SizerScores,
     interaction_level : SizerScores]
    \cup {Uniform(0), Uniform(30), Uniform(100)}

\* total_estimated_content: absent, zero, below and above a target.
SizerTokens == {None, Some(0), Some(500), Some(2000)}

\* total_duration in seconds: absent, zero, below every target, between
\* targets, and large.
SizerDurations == {None, Some(0), Some(10), Some(50), Some(100), Some(300)}

SizeInputs ==
    [complexity : SizerComplexities, content_type : ContentTypes,
     total_estimated_content : SizerTokens, total_duration : SizerDurations]

NoRequest ==
    [complexity |-> Uniform(30), content_type |-> "definition",
     target_total_duration |-> 60]

InitSizer ==
    /\ request = NoRequest
    /\ RunAt("idle")
    /\ NoParseCall
    /\ size_input \in SizeInputs
    /\ size_output = None
    /\ NoConvertCall

\* One call of recommend_chunk_size.
Recommend ==
    /\ size_output = None
    /\ size_output' = Some(recommend_chunk_size(size_input.complexity,
                                                size_input.content_type,
                                                size_input.total_estimated_content,
                                                size_input.total_duration))
    /\ UNCHANGED <<run_vars, parse_vars, size_input, convert_vars, other_vars>>

NextSizer == Recommend

SpecSizer == InitSizer /\ [][NextSizer]_vars

(***************************************************************************)
(* convert_chunks_to_canvas_steps called on its own                        *)
(***************************************************************************)
\* Lines 833-845: the CanvasStep of one event.  event.get(key, default) needs
\* a dict; the caller has checked that.
canvas_step(step_number, event) ==
    [step_number |-> step_number,
     explanation |-> IF "content" \in event.keys THEN event.content ELSE <<"", 0, 0>>,
     narration |-> IF "content" \in event.keys THEN event.content ELSE <<"", 0, 0>>,
     duration |-> IF "duration" \in event.keys THEN event.duration ELSE RInt(5),
     visual_elements |->
         << [type |-> "timeline_event",
             event_type |-> IF "event_type" \in event.keys THEN event.event_type
                            ELSE "narration",
             timestamp |-> IF "timestamp" \in event.keys THEN event.timestamp
                           ELSE RInt(0),
             visual_instruction |-> event.visual_instruction] >>]

\* Lines 832-848: the inner loop over one chunk's timeline_events.  An
\* element that is no dict (a str, or a character of a str) has no get:
\* AttributeError.
RECURSIVE convert_events(_, _, _)
convert_events(timeline_events, step_number, canvas_steps) ==
    IF timeline_events = <<>>
    THEN [raised |-> FALSE, error |-> "", step_number |-> step_number,
          canvas_steps |-> canvas_steps]
    ELSE IF Head(timeline_events).kind # "map"
    THEN [raised |-> TRUE, error |-> "AttributeError", step_number |-> step_number,
          canvas_steps |-> canvas_steps]
    ELSE convert_events(Tail(timeline_events), step_number + 1,
                        Append(canvas_steps,
                               canvas_step(step_number, Head(timeline_events))))

\* Lines 827-848: the loop over chunk_results.
RECURSIVE convert_chunks(_, _, _)
convert_chunks(chunk_results, step_number, canvas_steps) ==
    IF chunk_results = <<>>
    THEN [raised |-> FALSE, error |-> "", canvas_steps |-> canvas_steps]
    ELSE IF Head(chunk_results).status # "completed"
    THEN convert_chunks(Tail(chunk_results), step_number, canvas_steps)
    ELSE LET inner == convert_events(Head(chunk_results).timeline_events,
                                     step_number, canvas_steps)
         IN  IF inner.raised
             THEN [raised |-> TRUE, error |-> inner.error, canvas_steps |-> <<>>]
             ELSE convert_chunks(Tail(chunk_results), inner.step_number,
                                 inner.canvas_steps)

\* Lines 824-851.
convert_chunks_to_canvas_steps(chunk_results) == convert_chunks(chunk_results, 1, <<>>)

MaxResults == 3

\* What the LLM call of a chunk returned, for the results handed to the
\* converter: nothing, two dicts, one empty dict, a dict and a str, a str in
\* place of the list, and an empty list.
ConvertResponses ==
    { None,
      Some(Text("json", "none", JsonObject(PayloadKeys, "list",
                                           <<EventFull, EventContentOnly>>, 1))),
      Some(Text("json", "none", JsonObject(PayloadKeys, "list", <<EventEmptyMap>>, 1))),
      Some(Text("json", "none", JsonObject(PayloadKeys, "list",
                                           <<EventFull, EventString>>, 1))),
      Some(Text("json", "none", JsonObject(PayloadKeys, "string",
                                           <<EventChar, EventChar>>, 1))),
      Some(Text("json", "none", JsonObject(PayloadKeys, "list", <<>>, 1))) }

ConvertConfig ==
    [max_tokens |-> FallbackTokens, target_duration |-> RInt(FallbackDuration),
     maintain_continuity |-> TRUE]

\* The results generate_chunk gave for chunks 1..n of n, in order.
ConvertInputs ==
    UNION { { [k \in 1..n |->
                  generate_chunk_result(chunk_id_of(Topic, k, 0), k, responses[k],
                                        ConvertConfig, n, 0)] :
              responses \in [1..n -> ConvertResponses] } : n \in 0..MaxResults }

InitConvert ==
    /\ request = NoRequest
    /\ RunAt("idle")
    /\ NoParseCall
    /\ NoSizeCall
    /\ convert_input \in ConvertInputs
    /\ convert_output = None

\* One call of convert_chunks_to_canvas_steps.
Convert ==
    /\ convert_output = None
    /\ convert_output' = Some(convert_chunks_to_canvas_steps(convert_input))
    /\ UNCHANGED <<run_vars, parse_vars, size_vars, convert_input, other_vars>>

NextConvert == Convert

SpecConvert == InitConvert /\ [][NextConvert]_vars

(***************************************************************************)
(* Two runs of generate_chunked_lesson on one ChunkedContentGenerator: the *)
(* run above, and another run for the same topic and arguments whose       *)
(* chunks end between the steps of the first.  Of the other run only what  *)
(* it writes to the object's attributes is kept.                           *)
(***************************************************************************)
SharedRequests ==
    {r \in Requests : /\ r.complexity = Uniform(30)
                      /\ r.content_type = "story"
                      /\ r.target_total_duration = 60}

\* The response text the other run's LLM call returns for its chunk k: an
\* object with one event, told apart from the first run's texts by its tag.
OtherTexts(k) ==
    { Text("json", "none", JsonObject(PayloadKeys, "list", <<EventFull>>, k + 10)) }

\* Seconds one generate_chunk of the other run takes: at least one.
OtherLatencies == Latencies \ {0}

InitShared ==
    /\ request \in SharedRequests
    /\ RunAt("start")
    /\ NoParseCall
    /\ NoSizeCall
    /\ NoConvertCall

\* Lines 206-257 and 347-360 in the other run: its generate_chunk for its
\* next chunk, entered dt seconds ago, returns now; a COMPLETED result is
\* written to self.generation_cache and its context to
\* self.continuity_contexts.  None of the code between the return of the
\* LLM call and the yield of the result suspends.
OtherRunChunk ==
    LET plan == analyze_and_plan_chunks(request.complexity, request.content_type,
                                        request.target_total_duration)
        k == Len(other_run) + 1
    IN  /\ ~plan.raised
        /\ k <= Len(plan.configs)
        /\ \E dt \in OtherLatencies, text \in OtherTexts(k) :
              LET chunk_result ==
                      generate_chunk_result(chunk_id_of(Topic, k, clock - dt), k,
                                            Some(text), plan.configs[k],
                                            Len(plan.configs), dt)
                  completed == chunk_result.status = "completed"
              IN  /\ dt <= clock
                  /\ generation_cache' =
                         IF completed
                         THEN Put(generation_cache, chunk_result.chunk_id,
                                  cache_entry(chunk_result))
                         ELSE generation_cache
                  /\ continuity_contexts' =
                         IF completed
                         THEN Put(continuity_contexts, chunk_result.chunk_id,
                                  continuity_after(chunk_result, plan.configs, k - 1))
                         ELSE continuity_contexts
                  /\ other_run' = Append(other_run,
                                         [result |-> chunk_result,
                                          prompts_before |-> Len(prompts)])
        /\ UNCHANGED <<request, pc, progress, chunk_configs, continuity_context, i,
                       emitted, last_result, clock, start_time, attempt, slept,
                       inflight, prompts, escaped, llm_log, llm_return,
                       parse_vars, size_vars, convert_vars>>

NextShared ==
    \/ Next
    \/ OtherRunChunk

SpecShared == InitShared /\ [][NextShared]_vars

(***************************************************************************)
(* Properties                                                              *)
(***************************************************************************)
\* t = num/den, for a time t = <<a, b>>
TimeIs(t, num, den) == t[1] * den = t[2] * num

ResultItems == SelectSeq(emitted, LAMBDA item : item.result # None)

CompletedBefore(k) ==
    {x \in 1..Len(emitted) :
        /\ emitted[x].result # None
        /\ emitted[x].result[1].status = "completed"
        /\ emitted[x].result[1].chunk_number < k}

SetMax(S) == CHOOSE x \in S : \A y \in S : y <= x

\* C1: every timeline event of the COMPLETED result of chunk n of N lies in
\* that chunk's slice of the requested total duration D:
\* (n-1)*D/N <= timestamp < n*D/N.
C1_EventsInChunkSlice ==
    (last_result # None /\ last_result[1].status = "completed") =>
        LET r == last_result[1]
            n == r.chunk_number
            N == progress.total_chunks
            D == request.target_total_duration
        IN  \A j \in 1..Len(r.timeline_events) :
                LET t == r.timeline_events[j].timestamp
                IN  /\ (n - 1) * D * t[2] <= t[1] * N
                    /\ t[1] * N < n * D * t[2]

\* C2: for a payload a strategy recovered, the event at 0-based index i of
\* the m elements gets timestamp (n-1)*D/N + i*(D/N)/m and duration
\* min(0.8*(D/N)/m, 15), whatever timing the text proposed; so timestamps
\* increase strictly, lie in [chunkStart, chunkStart + D/N), and the same
\* text parsed for chunk n+1 starts D/N later.  n=2, N=4, D=120, one event:
\* timestamp 30, duration 15.
C2_NormalizedTiming ==
    parse_output # None =>
        LET out == parse_output[1]
            text == parse_input.text
            n == parse_input.chunk_number
            N == parse_input.total_chunks
            D == parse_input.target_duration
            recovered == try_parse_json_multiple_strategies(strip_markdown(text))
            evs == out.data.timeline_events
            m == Len(evs)
            nxt == parse_chunk_response(text, n + 1, D, N).data.timeline_events
        IN  (recovered.ok /\ ~out.raised) =>
                \A j \in 1..m :
                    evs[j].kind = "map" =>
                        /\ TimeIs(evs[j].timestamp,
                                  ((n - 1) * m + (j - 1)) * D[1], N * m * D[2])
                        /\ IF 4 * D[1] <= MaxEventDuration * 5 * N * m * D[2]
                           THEN TimeIs(evs[j].duration, 4 * D[1], 5 * N * m * D[2])
                           ELSE TimeIs(evs[j].duration, MaxEventDuration, 1)
                        /\ (n - 1) * D[1] * evs[j].timestamp[2]
                               <= evs[j].timestamp[1] * N * D[2]
                        /\ evs[j].timestamp[1] * N * D[2]
                               < n * D[1] * evs[j].timestamp[2]
                        /\ \A k \in 1..(j - 1) :
                               evs[k].kind = "map" => RLt(evs[k].timestamp, evs[j].timestamp)
                        /\ RAdd(evs[j].timestamp, Rat(D[1], D[2] * N)) = nxt[j].timestamp
                        /\ (n = 2 /\ N = 4 /\ D = <<120, 1>> /\ m = 1) =>
                               /\ evs[j].timestamp = <<30, 1>>
                               /\ evs[j].duration = <<15, 1>>

\* C2 witness: the parse of chunk 2 of 4 over 120 s of a recovered payload
\* whose one event proposed its own timing.
C2_Witness ==
    /\ parse_output # None
    /\ parse_input.chunk_number = 2
    /\ parse_input.total_chunks = 4
    /\ parse_input.target_duration = <<120, 1>>
    /\ parse_input.text = Text("json", "none",
                               JsonObject(PayloadKeys, "list", <<EventFull>>, 1))
    /\ ~parse_output[1].raised
    /\ parse_output[1].data.timeline_events[1].timestamp = <<30, 1>>
    /\ parse_output[1].data.timeline_events[1].duration = <<15, 1>>

\* C3: for every input text the parser returns a payload that has the keys
\* timeline_events and chunk_summary, and never raises.
C3_ParserTotal ==
    parse_output # None =>
        /\ ~parse_output[1].raised
        /\ {"timeline_events", "chunk_summary"} \subseteq parse_output[1].data.keys

\* C4: the continuity context of chunk k's prompt is the one derived from the
\* most recent chunk j < k whose result was COMPLETED, and None when there is
\* none; a FAILED chunk neither replaces nor clears it.
C4_ContinuityThreading ==
    \A p \in 1..Len(prompts) :
        LET k == prompts[p].chunk_number
            done == CompletedBefore(k)
        IN  IF done = {}
            THEN prompts[p].context = None
            ELSE LET r == emitted[SetMax(done)].result[1]
                 IN  /\ prompts[p].context # None
                     /\ prompts[p].context[1].chunk_number = r.chunk_number
                     /\ prompts[p].context[1].narrative_thread = r.chunk_summary
                     /\ prompts[p].context[1].previous_concepts = r.concepts_introduced
                     /\ prompts[p].context[1].visual_elements = r.visual_elements_created

\* C4 witness: a 3-chunk run, chunk 1 completed, chunk 2 failed, and chunk 3's
\* prompt built with chunk 1's context.
C4_Witness ==
    /\ Len(chunk_configs) = 3
    /\ Len(prompts) = 3
    /\ Len(ResultItems) >= 2
    /\ ResultItems[1].result[1].status = "completed"
    /\ ResultItems[2].result[1].status = "failed"
    /\ prompts[3].chunk_number = 3
    /\ prompts[3].context # None
    /\ prompts[3].context[1].chunk_number = 1

\* C5: at most one LLM request of the run is outstanding at any time, and a
\* request for chunk k is outstanding only after the results of all chunks
\* before k were emitted.
C5_Sequential ==
    /\ Cardinality(inflight) <= 1
    /\ \A k \in inflight :
          \A j \in 1..(k - 1) :
              \E x \in 1..Len(emitted) :
                  emitted[x].result # None /\ emitted[x].result[1].chunk_number = j

\* C5 witness: the request of chunk 2 is outstanding, chunk 1's result emitted.
C5_Witness ==
    /\ inflight = {2}
    /\ Len(ResultItems) = 1
    /\ ResultItems[1].result[1].chunk_number = 1

\* C6: the emitted chunk results carry chunk_number 1, 2, ..., N in that
\* order, each once.
C6_ResultsInOrder ==
    /\ \A j \in 1..Len(ResultItems) : ResultItems[j].result[1].chunk_number = j
    /\ Len(ResultItems) <= Len(chunk_configs)
    /\ (pc = "done" /\ ~escaped) => Len(ResultItems) = Len(chunk_configs)

\* C6 witness: a finished 3-chunk run with failed and completed chunks.
C6_Witness ==
    /\ pc = "done"
    /\ Len(ResultItems) = 3
    /\ ResultItems[1].result[1].status = "failed"
    /\ ResultItems[3].result[1].status = "completed"

\* C7: the first item emitted is a progress update with status ANALYZING and
\* no result, emitted before anything is planned; every chunk attempt k, and
\* so every result of chunk k, completed or failed, comes after a progress
\* update with current_chunk = k and no result.
C7_ProgressBeforeWork ==
    /\ emitted = <<>> => chunk_configs = <<>> /\ prompts = <<>>
    /\ emitted # <<>> => emitted[1].status = "analyzing" /\ emitted[1].result = None
    /\ pc = "analyzing" => Len(emitted) = 1 /\ chunk_configs = <<>>
    /\ \A p \in 1..Len(prompts) :
          \E x \in 1..Len(emitted) :
              /\ emitted[x].result = None
              /\ emitted[x].current_chunk = prompts[p].chunk_number
    /\ \A x \in 1..Len(emitted) :
          emitted[x].result # None =>
              /\ x > 1
              /\ emitted[x - 1].result = None
              /\ emitted[x - 1].current_chunk = emitted[x].result[1].chunk_number

\* C7 witness: chunk 2 is being attempted and will fail or succeed later; its
\* progress update is the last item emitted.
C7_Witness ==
    /\ pc = "await"
    /\ i = 1
    /\ emitted[Len(emitted)].result = None
    /\ emitted[Len(emitted)].current_chunk = 2

StatusRank(status) ==
    CASE status = "analyzing" -> 1
      [] status = "generating" -> 2
      [] status \in {"completed", "failed"} -> 3
      [] OTHER -> 0

\* C8: the emitted status goes ANALYZING, GENERATING, then COMPLETED or
\* FAILED, never backwards; only the last item emitted may carry a terminal
\* status; FAILED needs an exception that reached the generator's except,
\* which no per-chunk failure is.
C8_StatusProgression ==
    /\ \A x \in 1..Len(emitted) :
          /\ StatusRank(emitted[x].status) >= 1
          /\ x < Len(emitted) =>
                /\ StatusRank(emitted[x].status) <= StatusRank(emitted[x + 1].status)
                /\ StatusRank(emitted[x].status) < 3
          /\ emitted[x].status = "failed" => escaped
    /\ progress.status = "failed" => escaped
    /\ pc = "done" => StatusRank(emitted[Len(emitted)].status) = 3

\* C8 witness: a run that ended COMPLETED although chunks failed.
C8_Witness ==
    /\ pc = "done"
    /\ progress.status = "completed"
    /\ Len(progress.errors) >= 1
    /\ emitted[Len(emitted)].status = "completed"

\* C9: with N chunk configs planned the run makes exactly N chunk attempts,
\* however many fail, and then emits a final COMPLETED progress update.
C9_AllChunksAttempted ==
    /\ (pc = "done" /\ ~escaped) =>
          /\ Len(prompts) = Len(chunk_configs)
          /\ Len(ResultItems) = Len(chunk_configs)
          /\ emitted[Len(emitted)].status = "completed"
          /\ emitted[Len(emitted)].result = None
          /\ emitted[Len(emitted)].total_chunks = Len(chunk_configs)
    /\ (pc \notin {"done", "start", "analyzing"}) => ENABLED Next

\* C9 witness: a finished 3-chunk run in which every chunk failed.
C9_Witness ==
    /\ pc = "done"
    /\ Len(chunk_configs) = 3
    /\ Len(prompts) = 3
    /\ progress.completed_chunks = 0
    /\ Len(progress.errors) = 3
    /\ emitted[Len(emitted)].status = "completed"

\* C10: when sizing raises during planning, the fallback plan (3 chunks of
\* 30 s and 800 tokens) is used and the run goes on to GENERATING with
\* total_chunks = 3 instead of ending FAILED.
C10_PlanningFallback ==
    (request.content_type \notin ContentTypes /\ pc \notin {"start", "analyzing"}) =>
        /\ progress.status # "failed"
        /\ progress.total_chunks = FallbackChunks
        /\ Len(chunk_configs) = FallbackChunks
        /\ \A c \in 1..Len(chunk_configs) :
              /\ chunk_configs[c].target_duration = RInt(FallbackDuration)
              /\ chunk_configs[c].max_tokens = FallbackTokens

\* C11: one call of the LLM client makes at most max_retries = 3 attempts; an
\* attempt answered 200 is the last one and its response text is what the call
\* returns; the call returns None exactly after 3 attempts that all failed,
\* by an exception or by another status; nothing but a return ends the call.
C11_LlmCallBounded ==
    /\ Len(llm_log) <= max_retries
    /\ \A j \in 1..(Len(llm_log) - 1) : llm_log[j].outcome # "ok"
    /\ llm_return = None =>
          \A j \in 1..Len(llm_log) : llm_log[j].outcome # "ok"
    /\ (llm_return = None /\ pc = "await") => Len(llm_log) < max_retries
    /\ llm_return # None =>
          /\ Len(llm_log) >= 1
          /\ IF llm_log[Len(llm_log)].outcome = "ok"
             THEN /\ llm_return[1] # None
                  /\ llm_return[1] = llm_log[Len(llm_log)].body
             ELSE /\ llm_return[1] = None
                  /\ Len(llm_log) = max_retries
          /\ last_result # None
          /\ last_result[1].status \in {"completed", "failed"}

\* C11 witness: a call whose first attempt raised, whose second got another
\* status than 200, and whose third got 200 and returned its text.
C11_Witness ==
    /\ llm_return # None
    /\ Len(llm_log) = 3
    /\ llm_log[1].outcome = "error"
    /\ llm_log[2].outcome = "status"
    /\ llm_log[3].outcome = "ok"
    /\ llm_return[1] = llm_log[3].body

\* C12: every failed attempt that is followed by another attempt, whether it
\* failed by an exception or by a status other than 200, is followed by a
\* sleep of (its 1-based index) * retry_delay, and no sleep follows the last
\* attempt of a call.
C12_BackoffBetweenAttempts ==
    /\ \A j \in 1..(Len(llm_log) - 1) : llm_log[j].delay = j * retry_delay
    /\ llm_return # None => llm_log[Len(llm_log)].delay = 0


\* What _parse_chunk_response gave for the text the latest LLM call returned,
\* for the chunk of the latest prompt.
LatestParse ==
    parse_chunk_response(llm_return[1][1], prompts[Len(prompts)].chunk_number,
                         prompts[Len(prompts)].config.target_duration,
                         progress.total_chunks)

\* C13: generate_chunk always returns a result whose status is COMPLETED or
\* FAILED; a FAILED result has no timeline events, token_count 0 and the
\* exception's message as error_message: "Failed to get response from LLM"
\* when the LLM call returned nothing, the parser's exception when it raised.
C13_ChunkAlwaysReturns ==
    /\ last_result # None =>
          /\ last_result[1].status \in {"completed", "failed"}
          /\ last_result[1].status = "failed" =>
                /\ last_result[1].timeline_events = <<>>
                /\ last_result[1].token_count = 0
                /\ last_result[1].error_message # None
    /\ llm_return # None =>
          /\ last_result # None
          /\ last_result[1].chunk_number = prompts[Len(prompts)].chunk_number
          /\ llm_return[1] = None =>
                /\ last_result[1].status = "failed"
                /\ last_result[1].error_message = Some("Failed to get response from LLM")
          /\ (llm_return[1] # None /\ llm_return[1][1].form # "empty"
                 /\ LatestParse.raised) =>
                /\ last_result[1].status = "failed"
                /\ last_result[1].error_message = Some(LatestParse.error)

\* C13 witness: the parser raised on the text of the LLM call and the chunk's
\* result is FAILED with that exception.
C13_Witness ==
    /\ llm_return # None
    /\ llm_return[1] # None
    /\ llm_return[1][1].form = "json"
    /\ LatestParse.raised
    /\ last_result[1].status = "failed"
    /\ last_result[1].error_message = Some("TypeError")
    /\ pc = "loop"


\* C20: a COMPLETED result has at least one timeline event and no
\* error_message; a response whose recovered event list is empty gives a
\* FAILED result with "No timeline events generated"; the result cache holds
\* COMPLETED results only.
C20_CompletedHasEvents ==
    /\ (last_result # None /\ last_result[1].status = "completed") =>
          /\ Len(last_result[1].timeline_events) >= 1
          /\ last_result[1].error_message = None
    /\ (llm_return # None /\ llm_return[1] # None /\ llm_return[1][1].form # "empty"
           /\ ~LatestParse.raised /\ LatestParse.data.timeline_events = <<>>) =>
          /\ last_result[1].status = "failed"
          /\ last_result[1].error_message = Some("No timeline events generated")
    /\ \A id \in DOMAIN generation_cache : generation_cache[id].status = "completed"

\* C20 witness: chunk 1 is cached as COMPLETED, and chunk 2, whose response
\* was recovered with an empty event list, is FAILED and not cached.
C20_Witness ==
    /\ llm_return # None
    /\ llm_return[1] # None
    /\ llm_return[1][1].form = "json"
    /\ ~LatestParse.raised
    /\ LatestParse.data.timeline_events = <<>>
    /\ last_result[1].chunk_number = 2
    /\ last_result[1].error_message = Some("No timeline events generated")
    /\ Cardinality(DOMAIN generation_cache) = 1


\* C14: recommend_chunk_size returns estimated_chunks_needed >= 1 whatever
\* the metrics, the content type, the total duration (absent, zero, below
\* the target, large) and the token estimate (absent, zero, positive).
C14_AtLeastOneChunk ==
    size_output # None => size_output[1].estimated_chunks_needed >= 1

\* C14 witness: a total duration below the target duration, no token
\* estimate: one chunk.
C14_Witness ==
    /\ size_output # None
    /\ size_input.total_estimated_content = None
    /\ size_input.total_duration = Some(10)
    /\ size_output[1].estimated_chunks_needed = 1

\* C15: when a total duration is given (and no token estimate takes
\* precedence), the chunk count is max(1, round(total_duration /
\* target_duration)): max(1, r) for an integer r nearest to the quotient.
C15_RoundedChunkCount ==
    (size_output # None /\ ~Truthy(size_input.total_estimated_content)
       /\ Truthy(size_input.total_duration)) =>
        LET D == size_input.total_duration[1]
            td == size_output[1].target_duration
            n == size_output[1].estimated_chunks_needed
        IN  \E r \in 0..(D + 1) :
                /\ 2 * r * td <= 2 * D + td
                /\ 2 * D <= 2 * r * td + td
                /\ n = Max(1, r)

\* The recommendation for other metrics, all else as in size_input.
RecommendationFor(complexity) ==
    recommend_chunk_size(complexity, size_input.content_type,
                         size_input.total_estimated_content,
                         size_input.total_duration)

SizerProbes == {Uniform(x) : x \in {0, 20, 30, 50, 80, 100}}

\* C16: for a fixed content type, metrics of greater or equal
\* overall_complexity never get a longer target_duration or more
\* target_tokens; the category and its pair are LARGE(45, 1000) for an
\* adjusted score < 0.4, MEDIUM(30, 800) for < 0.7, SMALL(20, 600) otherwise.
C16_MonotoneBands ==
    size_output # None =>
        LET r == size_output[1]
            c == overall_complexity(size_input.complexity)
            adjusted == c * content_type_factors[size_input.content_type]
        IN  /\ <<r.chunk_size, r.target_duration, r.target_tokens>> =
                   IF adjusted < 40000 THEN <<"large", 45, 1000>>
                   ELSE IF adjusted < 70000 THEN <<"medium", 30, 800>>
                   ELSE <<"small", 20, 600>>
            /\ \A m \in SizerProbes :
                   /\ overall_complexity(m) >= c =>
                         /\ RecommendationFor(m).target_duration <= r.target_duration
                         /\ RecommendationFor(m).target_tokens <= r.target_tokens
                   /\ overall_complexity(m) <= c =>
                         /\ RecommendationFor(m).target_duration >= r.target_duration
                         /\ RecommendationFor(m).target_tokens >= r.target_tokens

\* C16 witness: metrics of overall complexity 0.5 under FORMULA get MEDIUM,
\* between LARGE for 0.3 and SMALL for 0.8.
C16_Witness ==
    /\ size_output # None
    /\ size_input.complexity = Uniform(50)
    /\ size_input.content_type = "formula"
    /\ size_output[1].chunk_size = "medium"
    /\ RecommendationFor(Uniform(30)).target_duration = 45
    /\ RecommendationFor(Uniform(80)).target_duration = 20

CategoriesAt(content_type) ==
    IF content_type \in {"example", "formula", "comparison", "process", "concept_map"}
    THEN <<"large", "medium", "small">>
    ELSE IF content_type = "definition" THEN <<"large", "medium", "medium">>
    ELSE IF content_type = "list" THEN <<"large", "large", "medium">>
    ELSE <<"medium", "small", "small">>

C18_ConfidenceBounds ==
    size_output # None =>
        LET m == size_input.complexity
            decisive(x) == x < 30 \/ x > 70
            bonus == (IF decisive(m.concept_density) THEN 20 ELSE 0)
                     + (IF decisive(m.visual_complexity) THEN 15 ELSE 0)
                     + (IF decisive(m.cognitive_load) THEN 15 ELSE 0)
                     + (IF size_input.content_type \in {"definition", "process", "comparison"}
                        THEN 20 ELSE 0)
            confidence == size_output[1].confidence
        IN  /\ 0 <= confidence
            /\ confidence <= 100
            /\ confidence = IF 60 + bonus > 100 THEN 100 ELSE 60 + bonus

\* C18 witness: all five scores 0 under DEFINITION: every bonus applies
\* (0.6 + 0.7) and the confidence is 1.0.
C18_Witness ==
    /\ size_output # None
    /\ size_input.complexity = Uniform(0)
    /\ size_input.content_type = "definition"
    /\ size_output[1].confidence = 100


\* The timeline events of the COMPLETED chunks, in chunk order then event
\* order.
RECURSIVE EventsOfCompleted(_)
EventsOfCompleted(chunk_results) ==
    IF chunk_results = <<>> THEN <<>>
    ELSE (IF Head(chunk_results).status = "completed"
          THEN Head(chunk_results).timeline_events ELSE <<>>)
         \o EventsOfCompleted(Tail(chunk_results))

\* C19: over any list of chunk results the converter returns one step per
\* timeline event of the COMPLETED chunks, in chunk order then event order,
\* none for the other chunks, numbered 1, 2, ..., K without a gap, each with
\* exactly one visual element, of type "timeline_event".
C19_OneStepPerEvent ==
    convert_output # None =>
        LET events == EventsOfCompleted(convert_input)
            steps == convert_output[1].canvas_steps
        IN  /\ ~convert_output[1].raised
            /\ Len(steps) = Len(events)
            /\ \A k \in 1..Len(steps) :
                   /\ steps[k].step_number = k
                   /\ Len(steps[k].visual_elements) = 1
                   /\ steps[k].visual_elements[1].type = "timeline_event"
                   /\ events[k].kind = "map" =>
                         steps[k].visual_elements[1].timestamp = events[k].timestamp


\* The number of chunk results among the first x items emitted.
ResultsUpTo(x) ==
    Cardinality({y \in 1..x : emitted[y].result # None})

\* C21: in every item emitted with status GENERATING or COMPLETED,
\* completed_chunks + len(errors) is the number of chunk results emitted so
\* far and completed_chunks <= current_chunk <= total_chunks; errors grows
\* by exactly one with each FAILED result and never otherwise; at the final
\* COMPLETED item completed_chunks = total_chunks exactly when errors is
\* empty.
C21_ProgressCounters ==
    \A x \in 1..Len(emitted) :
        emitted[x].status \in {"generating", "completed"} =>
            /\ emitted[x].completed_chunks + emitted[x].errors = ResultsUpTo(x)
            /\ emitted[x].completed_chunks <= emitted[x].current_chunk
            /\ emitted[x].current_chunk <= emitted[x].total_chunks
            /\ x > 1 =>
                  emitted[x].errors =
                      emitted[x - 1].errors
                      + (IF emitted[x].result # None
                            /\ emitted[x].result[1].status = "failed"
                         THEN 1 ELSE 0)
            /\ emitted[x].status = "completed" =>
                  (emitted[x].completed_chunks = emitted[x].total_chunks
                      <=> emitted[x].errors = 0)

\* C21 witness: a finished 3-chunk run with one failed and two completed
\* chunks: completed_chunks 2 of 3, one error.
C21_Witness ==
    /\ pc = "done"
    /\ emitted[Len(emitted)].status = "completed"
    /\ emitted[Len(emitted)].total_chunks = 3
    /\ emitted[Len(emitted)].completed_chunks = 2
    /\ emitted[Len(emitted)].errors = 1


\* C22: every event of the payload the parser returns has duration
\* min(0.8 * eventSpacing, 15), eventSpacing being (D/N) / max(1, m) for the
\* m events of the payload, so no event lasts longer than 15 seconds, on the
\* path of a successful strategy and on the single-event fallback path.
C22_EventDurationCapped ==
    parse_output # None =>
        LET out == parse_output[1]
            evs == out.data.timeline_events
            spacing == event_spacing_of(
                           chunk_duration_of(parse_input.target_duration,
                                             parse_input.total_chunks),
                           Len(evs))
        IN  ~out.raised =>
                \A j \in 1..Len(evs) :
                    evs[j].kind = "map" =>
                        /\ evs[j].duration
                               = RMin(RMul(spacing, <<4, 5>>), RInt(MaxEventDuration))
                        /\ RLe(evs[j].duration, RInt(MaxEventDuration))

\* C23: every element of timeline_events of a COMPLETED chunk result is a
\* mapping with the keys timestamp, duration, event_type and content,
\* whatever JSON array the text had under timeline_events.
C23_CompletedEventsAreMappings ==
    \A k \in 1..Len(convert_input) :
        convert_input[k].status = "completed" =>
            \A j \in 1..Len(convert_input[k].timeline_events) :
                /\ convert_input[k].timeline_events[j].kind = "map"
                /\ EventKeys \subseteq convert_input[k].timeline_events[j].keys


\* C24: after chunk k completes, the continuity context carried forward has
\* previous_concepts, visual_elements and narrative_thread equal to chunk
\* k's concepts_introduced, visual_elements_created and chunk_summary and
\* chunk_number k; nothing of the context of earlier chunks is kept.
C24_ContextIsReplacement ==
    (last_result # None /\ last_result[1].status = "completed") =>
        /\ continuity_context # None
        /\ continuity_context[1].previous_concepts = last_result[1].concepts_introduced
        /\ continuity_context[1].visual_elements = last_result[1].visual_elements_created
        /\ continuity_context[1].narrative_thread = last_result[1].chunk_summary
        /\ continuity_context[1].chunk_number = last_result[1].chunk_number

\* C24 witness: chunk 2 completed after chunk 1 completed with other
\* concepts, and the context holds chunk 2's concepts only.
C24_Witness ==
    /\ Len(ResultItems) = 2
    /\ ResultItems[1].result[1].status = "completed"
    /\ ResultItems[2].result[1].status = "completed"
    /\ ResultItems[1].result[1].concepts_introduced # <<>>
    /\ ResultItems[1].result[1].concepts_introduced
           # ResultItems[2].result[1].concepts_introduced
    /\ last_result # None
    /\ last_result[1].chunk_number = 2
    /\ continuity_context # None
    /\ continuity_context[1].chunk_number = 2
    /\ continuity_context[1].previous_concepts
           = ResultItems[2].result[1].concepts_introduced


\* Where the parser puts the start of chunk n of the run: the call of line
\* 228 passes the chunk's own target_duration and the run's total_chunks.
SliceStart(n) ==
    chunk_start_time_of(n, chunk_configs[Min(n, Len(chunk_configs))].target_duration,
                        progress.total_chunks)

\* C25: within one run no two timeline events overlap: consecutive events
\* of a chunk satisfy timestamp_i + duration_i <= timestamp_(i+1), no event
\* of chunk n starts before chunk n's slice, and the last event of chunk n
\* ends no later than the start of chunk n+1's slice, which is also no later
\* than n*D/N; on the normalization path and on the fallback path.
C25_NoOverlap ==
    (last_result # None /\ last_result[1].status = "completed") =>
        LET r == last_result[1]
            n == r.chunk_number
            evs == r.timeline_events
            m == Len(evs)
            finish(j) == RAdd(evs[j].timestamp, evs[j].duration)
        IN  /\ \A j \in 1..m : RLe(SliceStart(n), evs[j].timestamp)
            /\ \A j \in 1..(m - 1) : RLe(finish(j), evs[j + 1].timestamp)
            /\ RLe(finish(m), SliceStart(n + 1))
            /\ RLe(finish(m), Rat(n * request.target_total_duration,
                                  progress.total_chunks))

\* C25 witness: chunk 1 of a run completed on the fallback path, its one
\* event ending exactly where chunk 2's slice starts; and a chunk completed
\* on the normalization path with two events.
C25_Witness ==
    /\ last_result # None
    /\ last_result[1].status = "completed"
    /\ last_result[1].chunk_number = 1
    /\ progress.total_chunks >= 2
    /\ Len(last_result[1].timeline_events) = 1
    /\ RAdd(last_result[1].timeline_events[1].timestamp,
            last_result[1].timeline_events[1].duration) = SliceStart(2)

C25_WitnessNormalized ==
    /\ last_result # None
    /\ last_result[1].status = "completed"
    /\ last_result[1].chunk_number = 2
    /\ Len(last_result[1].timeline_events) = 2
    /\ RLt(RAdd(last_result[1].timeline_events[1].timestamp,
                last_result[1].timeline_events[1].duration),
           last_result[1].timeline_events[2].timestamp)


\* C29: the continuity context created after chunk k completes carries
\* current_timestamp equal to the end of chunk k's slice of the lesson
\* timeline, k*D/N, which is the timestamp the normalizer gives the first
\* event of chunk k+1.
C29_ContextTimestampIsSliceEnd ==
    (/\ last_result # None
     /\ last_result[1].status = "completed"
     /\ last_result[1].chunk_number < progress.total_chunks) =>
        LET k == last_result[1].chunk_number
            following == parse_chunk_response(
                             Text("json", "none",
                                  JsonObject(PayloadKeys, "list", <<EventFull>>, k + 1)),
                             k + 1, chunk_configs[k + 1].target_duration,
                             progress.total_chunks)
        IN  /\ continuity_context # None
            /\ continuity_context[1].current_timestamp
                   = Rat(k * request.target_total_duration, progress.total_chunks)
            /\ continuity_context[1].current_timestamp
                   = following.data.timeline_events[1].timestamp


\* C30: a reply with status 200 and an empty (or missing) response text is
\* the last attempt of its LLM call, whatever its number, and the chunk's
\* result is then FAILED with the error "Failed to get response from LLM",
\* the result the chunk has when the call returned None after all attempts
\* failed.
C30_EmptyReplyFailsChunk ==
    \A j \in 1..Len(llm_log) :
        (llm_log[j].outcome = "ok" /\ llm_log[j].body = Some(EmptyText)) =>
            /\ j = Len(llm_log)
            /\ pc # "await"
            /\ llm_return = Some(Some(EmptyText))
            /\ last_result # None
            /\ last_result[1].status = "failed"
            /\ last_result[1].error_message = Some("Failed to get response from LLM")
            /\ last_result[1] =
                   generate_chunk_result(last_result[1].chunk_id,
                                         last_result[1].chunk_number, None,
                                         chunk_configs[last_result[1].chunk_number],
                                         progress.total_chunks,
                                         last_result[1].generation_time)

\* C30 witness: the first attempt of a call got 200 with an empty text; no
\* second attempt was made and the chunk is FAILED.
C30_Witness ==
    /\ Len(llm_log) = 1
    /\ llm_log[1].outcome = "ok"
    /\ llm_log[1].body = Some(EmptyText)
    /\ pc = "loop"
    /\ last_result # None
    /\ last_result[1].status = "failed"
    /\ last_result[1].error_message = Some("Failed to get response from LLM")


\* The generation_time of the COMPLETED results among the yielded items.
RECURSIVE OwnCompletedTime(_)
OwnCompletedTime(items) ==
    IF items = <<>> THEN 0
    ELSE (IF Head(items).result[1].status = "completed"
          THEN Head(items).result[1].generation_time ELSE 0)
         + OwnCompletedTime(Tail(items))

OwnCompleted ==
    {x \in 1..Len(ResultItems) : ResultItems[x].result[1].status = "completed"}

OtherCompleted ==
    {y \in 1..Len(other_run) : other_run[y].result.status = "completed"}

\* C26: the estimated_time_remaining of the progress yielded before chunk
\* k > 1 is (total_chunks - (k-1)) times the mean generation_time of the
\* chunks this run has completed so far, whatever results other runs on the
\* same generator left in the result cache.
C26_EstimateFromOwnChunks ==
    (pc = "chunk" /\ i > 0) =>
        progress.estimated_time_remaining =
            RMul(RInt(progress.total_chunks - i),
                 Rat(OwnCompletedTime(ResultItems), Max(1, progress.completed_chunks)))

\* C27: no two COMPLETED results of the generator have the same chunk_id,
\* each is in the result cache under its chunk_id, and the cache has as many
\* entries as COMPLETED results were produced, also when two runs for the
\* same topic generate the same chunk number within the same second.
C27_UniqueChunkIds ==
    /\ \A x \in OwnCompleted, y \in OtherCompleted :
           ResultItems[x].result[1].chunk_id # other_run[y].result.chunk_id
    /\ \A x1 \in OwnCompleted, x2 \in OwnCompleted :
           x1 # x2 => ResultItems[x1].result[1].chunk_id # ResultItems[x2].result[1].chunk_id
    /\ \A y1 \in OtherCompleted, y2 \in OtherCompleted :
           y1 # y2 => other_run[y1].result.chunk_id # other_run[y2].result.chunk_id
    /\ \A x \in OwnCompleted : ResultItems[x].result[1].chunk_id \in DOMAIN generation_cache
    /\ \A y \in OtherCompleted : other_run[y].result.chunk_id \in DOMAIN generation_cache
    /\ Cardinality(DOMAIN generation_cache)
           = Cardinality(OwnCompleted) + Cardinality(OtherCompleted)

\* C28: with another run interleaved on the same generator, the continuity
\* context of every prompt of this run is the one derived from this run's
\* most recent COMPLETED chunk before it, and None when there is none:
\* nothing the other run wrote to self.continuity_contexts or to the result
\* cache reaches a prompt.
C28_OwnContinuityChain ==
    \A p \in 1..Len(prompts) :
        LET k == prompts[p].chunk_number
            done == CompletedBefore(k)
        IN  IF done = {}
            THEN prompts[p].context = None
            ELSE LET r == emitted[SetMax(done)].result[1]
                 IN  /\ prompts[p].context # None
                     /\ prompts[p].context[1].chunk_number = r.chunk_number
                     /\ prompts[p].context[1].narrative_thread = r.chunk_summary
                     /\ prompts[p].context[1].previous_concepts = r.concepts_introduced
                     /\ prompts[p].context[1].visual_elements = r.visual_elements_created
                     /\ \A y \in 1..Len(other_run) :
                            /\ prompts[p].context[1].narrative_thread
                                   # other_run[y].result.chunk_summary
                            /\ prompts[p].context[1].previous_concepts
                                   # other_run[y].result.concepts_introduced

\* C28 witness: this run's chunk 1 and the other run's chunk 1 got the same
\* chunk_id; the other run's context was written under it after prompt 1
\* and before prompt 2 was built and is what self.continuity_contexts holds
\* there; prompt 2 carries this run's own chunk 1.
C28_Witness ==
    /\ Len(prompts) = 2
    /\ Len(ResultItems) >= 1
    /\ ResultItems[1].result[1].status = "completed"
    /\ Len(other_run) >= 1
    /\ other_run[1].prompts_before = 1
    /\ other_run[1].result.status = "completed"
    /\ other_run[1].result.chunk_id = ResultItems[1].result[1].chunk_id
    /\ continuity_contexts[other_run[1].result.chunk_id].narrative_thread
           = other_run[1].result.chunk_summary
    /\ prompts[2].context # None
    /\ prompts[2].context[1].narrative_thread = ResultItems[1].result[1].chunk_summary
    /\ prompts[2].context[1].narrative_thread # other_run[1].result.chunk_summary


=============================================================================
